---------------------------- MODULE Spec2Model ----------------------------
(***************************************************************************)
(* Binary morphology of skimage/morphology/binary.py: binary_erosion,      *)
(* binary_dilation, binary_opening, binary_closing and the driver          *)
(* _iterate_binary_func that applies a decomposed footprint.               *)
(*                                                                         *)
(* Arrays are rank-1 boolean arrays, modelled as functions on 0..n-1 (the   *)
(* code is the same for every rank: it never looks at the shape).          *)
(* Array objects live in a heap (object id -> contents), so that "the same *)
(* array object" and "a copy" are different things.  The neighbourhood     *)
(* reducer is scipy.ndimage.binary_erosion / binary_dilation, modelled by  *)
(* what it computes for the arguments binary.py passes to it.              *)
(***************************************************************************)
EXTENDS Integers, Sequences, FiniteSets, TLC

\* Length of the image array.
ImgLen == 3
\* Longest decomposed footprint sequence.
MaxPairs == 2
\* Largest repeat count of a (footprint, repeat_count) pair.
MaxIter == 2
\* `out is None`
None == 0
\* The array object passed as image, and the one passed as out when the
\* caller supplies an array of its own.
ImageId == 1
OutId == 2

Indices(n) == 0 .. (n - 1)
Size(a) == Cardinality(DOMAIN a)

Images == [Indices(ImgLen) -> BOOLEAN]
\* Structuring elements: every boolean array of 3 elements, and the array
\* of 2 ones (an axis of even size puts the centre off the middle).
FootprintArrays == [Indices(3) -> BOOLEAN] \cup {[i \in Indices(2) |-> TRUE]}
\* Prior contents of a caller-supplied out array.
OutContents == {[i \in Indices(ImgLen) |-> FALSE], [i \in Indices(ImgLen) |-> TRUE]}

---------------------------------------------------------------------------
(* scipy.ndimage, as called from binary.py *)

\* structure[::-1]
Reversed(structure) ==
    [i \in DOMAIN structure |-> structure[Size(structure) - 1 - i]]

\* The filter centre: shape // 2 + origin.
Center(structure, origin) == (Size(structure) \div 2) + origin

CenterIsTrue(structure, origin) == structure[Center(structure, origin)]

\* One output element of a pass: the AND over the neighbourhood of p, a
\* neighbour outside the array counting as border_value; with invert, the
\* same on the complemented input and border, complemented.
ErodePoint(input, structure, border_value, origin, invert, p) ==
    LET nn(q) == IF q \in DOMAIN input
                 THEN (IF invert THEN ~input[q] ELSE input[q])
                 ELSE (IF invert THEN ~border_value ELSE border_value)
        all == \A s \in DOMAIN structure :
                   structure[s] => nn(p + s - Center(structure, origin))
    IN  IF CenterIsTrue(structure, origin) /\ ~nn(p)
        THEN input[p]
        ELSE (IF invert THEN ~all ELSE all)

\* One pass from input into a distinct output: every element is written.
Pass(input, structure, border_value, origin, invert) ==
    [p \in DOMAIN input |->
        ErodePoint(input, structure, border_value, origin, invert, p)]

\* One pass with the input array itself as output (SciPy <= 1.7, which made
\* no temporary): elements are overwritten in index order while being read.
RECURSIVE SweepFrom(_, _, _, _, _, _)
SweepFrom(buf, structure, border_value, origin, invert, p) ==
    IF p \notin DOMAIN buf
    THEN buf
    ELSE SweepFrom(
            [buf EXCEPT ![p] =
                ErodePoint(buf, structure, border_value, origin, invert, p)],
            structure, border_value, origin, invert, p + 1)

RECURSIVE Repeat(_, _, _, _, _, _)
Repeat(x, structure, border_value, origin, invert, n) ==
    IF n <= 0
    THEN x
    ELSE Repeat(Pass(x, structure, border_value, origin, invert),
                structure, border_value, origin, invert, n - 1)

\* iterations < 1: passes are repeated until one changes nothing.  A
\* structure whose centre is false can oscillate; then the loop never ends
\* (returns = FALSE) and the output holds what the passes left in it.
RECURSIVE UntilStable(_, _, _, _, _, _)
UntilStable(x, structure, border_value, origin, invert, fuel) ==
    LET y == Pass(x, structure, border_value, origin, invert)
    IN  IF y = x THEN [returns |-> TRUE, output |-> y]
        ELSE IF fuel = 0 THEN [returns |-> FALSE, output |-> y]
        ELSE UntilStable(y, structure, border_value, origin, invert, fuel - 1)

\* _binary_erosion(input, structure, iterations, mask=None, output,
\* border_value, origin, invert) with input and output distinct arrays.
Proper(input, structure, iterations, border_value, origin, invert) ==
    IF iterations >= 1
    THEN [returns |-> TRUE,
          output |-> Repeat(input, structure, border_value, origin, invert,
                            iterations)]
    ELSE UntilStable(input, structure, border_value, origin, invert,
                     2 ^ Size(input))

\* The same with output being the input array and no temporary made: the
\* first pass runs in place.
InPlace(input, structure, iterations, border_value, origin, invert) ==
    LET first == SweepFrom(input, structure, border_value, origin, invert, 0)
    IN  IF iterations >= 1
        THEN [returns |-> TRUE,
              output |-> Repeat(first, structure, border_value, origin,
                                invert, iterations - 1)]
        ELSE IF first = input
        THEN [returns |-> TRUE, output |-> first]
        ELSE UntilStable(first, structure, border_value, origin, invert,
                         2 ^ Size(input))

\* The outcomes of one reducer call.  When input and output are the same
\* array the build decides: SciPy >= 1.8 computes into a temporary, older
\* versions do not.
BinaryErosionImpl(input, structure, iterations, border_value, origin, invert, aliased) ==
    {Proper(input, structure, iterations, border_value, origin, invert)}
    \cup
    (IF aliased
     THEN {InPlace(input, structure, iterations, border_value, origin, invert)}
     ELSE {})

\* scipy.ndimage.binary_erosion(input, structure=, output=, iterations=,
\* border_value=)
ndi_binary_erosion(input, structure, iterations, border_value, aliased) ==
    BinaryErosionImpl(input, structure, iterations, border_value, 0, FALSE,
                      aliased)

\* scipy.ndimage.binary_dilation(input, structure=, output=, iterations=,
\* border_value=): the structure is reversed, the origin negated and moved
\* by one along an axis of even size, and the erosion run inverted.
ndi_binary_dilation(input, structure, iterations, border_value, aliased) ==
    BinaryErosionImpl(input, Reversed(structure), iterations, border_value,
                      IF Size(structure) % 2 = 0 THEN -1 ELSE 0, TRUE,
                      aliased)

---------------------------------------------------------------------------
(* skimage/morphology/binary.py *)

Ops == {"binary_erosion", "binary_dilation", "binary_opening", "binary_closing"}

\* A (footprint, num_iter) 2-tuple of a decomposed footprint.
Pairs == FootprintArrays \X (0 .. MaxIter)

\* The footprint argument: one array (is_sequence = FALSE, the array being
\* pairs[1][1]), or a sequence of 2-tuples.
FootprintArgs ==
    {[is_sequence |-> FALSE, pairs |-> <<<<f, 1>>>>] : f \in FootprintArrays}
    \cup
    {[is_sequence |-> TRUE, pairs |-> s] :
        s \in UNION {[1 .. n -> Pairs] : n \in 0 .. MaxPairs}}

VARIABLES
    op,         \* the operator called
    footprint,  \* its footprint argument
    arg_out,    \* its out argument: None, or an array object
    x0,         \* contents of image when the call is made
    heap,       \* array object -> contents
    pc,         \* "entry", "loop", "mid", "done", "error", "hung"
    phase,      \* 0: erosion/dilation called directly; 1, 2: the first and
                \* second call made by opening/closing
    out,        \* `out` of the running binary_erosion/binary_dilation
    k,          \* index of the next 2-tuple of the footprint sequence
    result,     \* the array object returned
    lastCall,   \* source and output object of the latest reducer call
    ncalls      \* reducer calls made so far

vars == <<op, footprint, arg_out, x0, heap, pc, phase, out, k, result, lastCall, ncalls>>

\* _footprint_is_sequence(footprint)
footprint_is_sequence(fp) == fp.is_sequence

\* border_value=True of the erosion calls
\* (faulty variant: border_value left at its default)
mut_erosion_border_false == FALSE
ErosionBorderValue == TRUE
\* ndi.binary_dilation is called without border_value: its default, 0
\* (faulty variant: border_value=True passed to the dilation too)
mut_dilation_border_true == TRUE
DilationBorderValue == FALSE

\* binary_func(input, structure=fp, output=out, iterations=num_iter)
binary_func(kind, input, fp, num_iter, aliased) ==
    IF kind = "erosion"
    THEN ndi_binary_erosion(input, fp, num_iter, ErosionBorderValue, aliased)
    ELSE ndi_binary_dilation(input, fp, num_iter, DilationBorderValue, aliased)

\* A new array object.
NewId(h) == (CHOOSE i \in DOMAIN h : \A j \in DOMAIN h : j <= i) + 1

\* np.empty(image.shape, dtype=bool): whatever the memory held.
np_empty == Images

\* if out is None: out = np.empty(image.shape, dtype=bool)
\* The array object that is `out` from then on.
\* (faulty variant: out = np.empty(...) whatever out is)
mut_always_allocate(h, o) == NewId(h)
allocate_out(h, o) == IF o = None THEN NewId(h) ELSE o

\* The input of the first reducer call of an operator: image.
\* (faulty variant: binary_func(out, ..., output=out))
mut_source_is_out(h, image, o) == [id |-> o, contents |-> h[o]]
first_source(h, image, o) == [id |-> image, contents |-> h[image]]

\* out.copy(): a new array object with the contents of out.
\* (faulty variants: out without .copy(); image in place of out.copy())
mut_no_copy(h, o) == [id |-> o, contents |-> h[o]]
mut_copy_of_image(h, o) == [id |-> NewId(h), contents |-> h[ImageId]]
out_copy(h, o) == [id |-> NewId(h), contents |-> h[o]]

\* The erosion or dilation the running call performs.
Kind ==
    CASE op = "binary_erosion" -> "erosion"
      [] op = "binary_dilation" -> "dilation"
      [] op = "binary_opening" -> IF phase = 1 THEN "erosion" ELSE "dilation"
      [] op = "binary_closing" -> IF phase = 1 THEN "dilation" ELSE "erosion"

\* One reducer call binary_func(source, structure=fp, output=o,
\* iterations=num_iter) with the idx-th 2-tuple, and what follows it: the
\* next turn of the loop, or the return of o.
Invoke(kind, source, h, o, idx, ph) ==
    LET pair == footprint.pairs[idx]
    IN  \E r \in binary_func(kind, source.contents, pair[1], pair[2], source.id = o) :
            /\ heap' = [h EXCEPT ![o] = r.output]
            /\ lastCall' = [src |-> source.id, dst |-> o, phase |-> ph]
            /\ ncalls' = ncalls + 1
            /\ out' = o
            /\ k' = idx + 1
            /\ phase' = ph
            /\ IF ~r.returns THEN pc' = "hung" /\ result' = None
               ELSE IF idx < Len(footprint.pairs) THEN pc' = "loop" /\ result' = None
               ELSE IF ph = 1 THEN pc' = "mid" /\ result' = None
               ELSE pc' = "done" /\ result' = o

\* The body of binary_erosion / binary_dilation (image, footprint, out) up
\* to and including its first reducer call: out is allocated when None; a
\* single footprint is applied once and out returned; a sequence goes to
\* _iterate_binary_func, whose footprint[0] raises IndexError when the
\* sequence is empty.
Entry(kind, image, o, ph) ==
    \E garbage \in (IF o = None THEN np_empty ELSE {heap[o]}) :
        LET o1 == allocate_out(heap, o)
            h1 == IF o1 \in DOMAIN heap THEN heap ELSE heap @@ (o1 :> garbage)
        IN  IF footprint_is_sequence(footprint) /\ Len(footprint.pairs) = 0
            THEN /\ pc' = "error"
                 /\ heap' = h1
                 /\ out' = o1
                 /\ phase' = ph
                 /\ UNCHANGED <<k, result, lastCall, ncalls>>
            ELSE Invoke(kind, first_source(h1, image, o1), h1, o1, 1, ph)

Init ==
    /\ op \in Ops
    /\ footprint \in FootprintArgs
    /\ x0 \in Images
    /\ arg_out \in {None, ImageId, OutId}
    /\ heap \in IF arg_out = OutId
                THEN {(ImageId :> x0) @@ (OutId :> c) : c \in OutContents}
                ELSE {ImageId :> x0}
    /\ pc = "entry"
    /\ phase = 0
    /\ out = arg_out
    /\ k = 1
    /\ result = None
    /\ lastCall = [src |-> None, dst |-> None, phase |-> 0]
    /\ ncalls = 0

binary_erosion ==
    /\ pc = "entry" /\ op = "binary_erosion"
    /\ Entry("erosion", ImageId, arg_out, 0)
    /\ UNCHANGED <<op, footprint, arg_out, x0>>

binary_dilation ==
    /\ pc = "entry" /\ op = "binary_dilation"
    /\ Entry("dilation", ImageId, arg_out, 0)
    /\ UNCHANGED <<op, footprint, arg_out, x0>>

\* for fp, num_iter in footprint[1:]:
\*     binary_func(out.copy(), structure=fp, output=out, iterations=num_iter)
iterate_binary_func ==
    /\ pc = "loop"
    /\ Invoke(Kind, out_copy(heap, out), heap, out, k, phase)
    /\ UNCHANGED <<op, footprint, arg_out, x0>>

\* eroded = binary_erosion(image, footprint)
\* (faulty variant: eroded = binary_erosion(image, footprint, out=out))
mut_opening_erodes_into_out ==
    /\ pc = "entry" /\ op = "binary_opening"
    /\ Entry("erosion", ImageId, arg_out, 1)
    /\ UNCHANGED <<op, footprint, arg_out, x0>>
binary_opening ==
    /\ pc = "entry" /\ op = "binary_opening"
    /\ Entry("erosion", ImageId, None, 1)
    /\ UNCHANGED <<op, footprint, arg_out, x0>>

\* out = binary_dilation(eroded, footprint, out=out); return out
\* (faulty variant: the second call is binary_erosion again)
mut_opening_erodes_twice ==
    /\ pc = "mid" /\ op = "binary_opening"
    /\ Entry("erosion", out, arg_out, 2)
    /\ UNCHANGED <<op, footprint, arg_out, x0>>
binary_opening_dilate ==
    /\ pc = "mid" /\ op = "binary_opening"
    /\ Entry("dilation", out, arg_out, 2)
    /\ UNCHANGED <<op, footprint, arg_out, x0>>

\* dilated = binary_dilation(image, footprint)
\* (faulty variant: dilated = binary_dilation(image, footprint, out=out))
mut_closing_dilates_into_out ==
    /\ pc = "entry" /\ op = "binary_closing"
    /\ Entry("dilation", ImageId, arg_out, 1)
    /\ UNCHANGED <<op, footprint, arg_out, x0>>
binary_closing ==
    /\ pc = "entry" /\ op = "binary_closing"
    /\ Entry("dilation", ImageId, None, 1)
    /\ UNCHANGED <<op, footprint, arg_out, x0>>

\* out = binary_erosion(dilated, footprint, out=out); return out
binary_closing_erode ==
    /\ pc = "mid" /\ op = "binary_closing"
    /\ Entry("erosion", out, arg_out, 2)
    /\ UNCHANGED <<op, footprint, arg_out, x0>>

Next ==
    \/ binary_erosion
    \/ binary_dilation
    \/ iterate_binary_func
    \/ binary_opening
    \/ binary_opening_dilate
    \/ binary_closing
    \/ binary_closing_erode

Spec == Init /\ [][Next]_vars

---------------------------------------------------------------------------
(* What the operators compute, as functions of the contents of image and   *)
(* of the footprint argument alone (no array objects, no out).             *)

\* The footprint argument is well formed: a single array, or a non-empty
\* sequence whose repeat counts are all >= 1.
WellFormed(fp) ==
    \/ ~fp.is_sequence
    \/ /\ Len(fp.pairs) >= 1
       /\ \A i \in 1 .. Len(fp.pairs) : fp.pairs[i][2] >= 1

\* One reducer call on distinct arrays.
Reduced(kind, x, pair) ==
    (CHOOSE r \in binary_func(kind, x, pair[1], pair[2], FALSE) : TRUE).output

\* The 2-tuples i, i+1, ... applied in order, each to the result of the one
\* before.
RECURSIVE Chained(_, _, _, _)
Chained(kind, x, pairs, i) ==
    IF i > Len(pairs) THEN x
    ELSE Chained(kind, Reduced(kind, x, pairs[i]), pairs, i + 1)

Eroded(x, fp) == Chained("erosion", x, fp.pairs, 1)
Dilated(x, fp) == Chained("dilation", x, fp.pairs, 1)

ValueOf(o, x, fp) ==
    CASE o = "binary_erosion" -> Eroded(x, fp)
      [] o = "binary_dilation" -> Dilated(x, fp)
      [] o = "binary_opening" -> Dilated(Eroded(x, fp), fp)
      [] o = "binary_closing" -> Eroded(Dilated(x, fp), fp)

Complement(x) == [p \in DOMAIN x |-> ~x[p]]
AllTrue(x) == \A p \in DOMAIN x : x[p]

\* The neighbour offsets a structuring element includes, relative to its
\* centre element shape // 2.
Offsets(f) == {s - Center(f, 0) : s \in {t \in DOMAIN f : f[t]}}

\* Symmetric about the centre: with an offset, its negation.
Symmetric(f) == \A o \in Offsets(f) : (0 - o) \in Offsets(f)

\* With an offset, every offset between the centre and it.
FilledToCentre(f) ==
    \A o \in Offsets(f) :
        \A j \in (IF o < 0 THEN o .. 0 ELSE 0 .. o) : j \in Offsets(f)

MinkowskiSum(A, B) == {a + b : a \in A, b \in B}

RECURSIVE Copies(_, _)
Copies(A, n) == IF n <= 1 THEN A ELSE MinkowskiSum(A, Copies(A, n - 1))

\* The single footprint equivalent to [(F1, n1), (F2, n2)]: the array,
\* centred on the origin, of the Minkowski sum of n1 copies of F1 and n2
\* copies of F2.
Composite(pairs) ==
    LET sum == MinkowskiSum(Copies(Offsets(pairs[1][1]), pairs[1][2]),
                            Copies(Offsets(pairs[2][1]), pairs[2][2]))
        reach == {IF o < 0 THEN 0 - o ELSE o : o \in sum} \cup {1}
        r == CHOOSE m \in reach : \A n \in reach : n <= m
    IN  [i \in Indices(2 * r + 1) |-> (i - r) \in sum]

Single(f) == [is_sequence |-> FALSE, pairs |-> <<<<f, 1>>>>]

\* The arrays the caller holds when it makes the call.
CallerArrays == IF arg_out = OutId THEN {ImageId, OutId} ELSE {ImageId}

Returned == pc = "done"

OpenClose == {"binary_opening", "binary_closing"}
ErodeDilate == {"binary_erosion", "binary_dilation"}

\* Every footprint of the argument includes, with an offset, every offset
\* between its centre and that offset (full boxes, crosses, diamonds).
AllFilledToCentre(fp) ==
    \A i \in 1 .. Len(fp.pairs) : FilledToCentre(fp.pairs[i][1])

---------------------------------------------------------------------------
(* Claims *)

\* C1 as stated: for every image and every well-formed footprint argument,
\* single or decomposed, the result of binary_opening (binary_closing) is
\* left unchanged by a second application with the same footprint.
C1_IdempotentForEveryFootprint ==
    (Returned /\ op \in OpenClose /\ WellFormed(footprint))
        => ValueOf(op, heap[result], footprint) = heap[result]

\* C1 amended: opening and closing are idempotent for a single structuring
\* element, for a decomposed sequence of one (footprint, repeat_count) pair,
\* and for a decomposed sequence whose footprints are all filled to the
\* centre.
C1_Idempotent ==
    (/\ Returned /\ op \in OpenClose /\ WellFormed(footprint)
     /\ (Len(footprint.pairs) = 1 \/ AllFilledToCentre(footprint)))
        => ValueOf(op, heap[result], footprint) = heap[result]

C1_Witness ==
    /\ Returned /\ op = "binary_opening" /\ WellFormed(footprint)
    /\ footprint.is_sequence /\ Len(footprint.pairs) = 2
    /\ AllFilledToCentre(footprint)
    /\ heap[result] # x0
    /\ \E p \in DOMAIN x0 : heap[result][p]

\* C2 as stated: for every image and every [(F1, n1), (F2, n2)] with
\* n1, n2 >= 1, binary_erosion with the sequence returns exactly what
\* binary_erosion returns with the single composite (Minkowski sum)
\* footprint.
C2_DecompositionForEveryFootprint ==
    (/\ Returned /\ op = "binary_erosion" /\ arg_out # ImageId
     /\ footprint.is_sequence /\ Len(footprint.pairs) = 2
     /\ WellFormed(footprint))
        => heap[result] = Eroded(x0, Single(Composite(footprint.pairs)))

\* C2 amended: the same, for sequences whose footprints F1 and F2 are both
\* filled to the centre.
C2_Decomposition ==
    (/\ Returned /\ op = "binary_erosion" /\ arg_out # ImageId
     /\ footprint.is_sequence /\ Len(footprint.pairs) = 2
     /\ WellFormed(footprint) /\ AllFilledToCentre(footprint))
        => heap[result] = Eroded(x0, Single(Composite(footprint.pairs)))

C2_Witness ==
    /\ Returned /\ op = "binary_erosion" /\ arg_out # ImageId
    /\ footprint.is_sequence /\ Len(footprint.pairs) = 2
    /\ footprint.pairs[1][2] = 2 /\ footprint.pairs[2][2] = 1
    /\ AllFilledToCentre(footprint)
    /\ Size(Composite(footprint.pairs)) > 3
    /\ ~heap[result][0] /\ heap[result][ImgLen - 1]

\* C3: for every image X and every footprint F symmetric about its centre,
\* binary_erosion(X, F) is the complement of
\* binary_dilation(complement(X), F) at every position.
C3_Duality ==
    (/\ Returned /\ op = "binary_erosion" /\ arg_out # ImageId
     /\ ~footprint.is_sequence /\ Symmetric(footprint.pairs[1][1]))
        => heap[result] = Complement(Dilated(Complement(x0), footprint))

C3_Witness ==
    /\ Returned /\ op = "binary_erosion" /\ arg_out # ImageId
    /\ ~footprint.is_sequence /\ Symmetric(footprint.pairs[1][1])
    /\ Offsets(footprint.pairs[1][1]) = {-1, 0, 1}
    /\ x0[0] /\ x0[1] /\ ~x0[2]
    /\ heap[result][0]

\* C4 as stated: in every reducer call made by any of the four operators,
\* whatever the footprint and the out argument (out being image included),
\* the source array is not the same array object as the output array.
C4_NoSelfAliasing ==
    ncalls > 0 => lastCall.src # lastCall.dst

\* C5 as stated: binary_erosion or binary_dilation called with an empty
\* sequence, or with a sequence holding a repeat count <= 0 at any position,
\* ends in an error before any reducer call is made: no reducer call is ever
\* made and the call never returns a result.
C5_MalformedFailsFast ==
    (op \in ErodeDilate /\ footprint.is_sequence /\ ~WellFormed(footprint))
        => (ncalls = 0 /\ pc \in {"entry", "error"})

\* C6: with a single footprint and an out array of the caller's, distinct
\* from image, each operator returns that very array object, holding what
\* the operator computes from image and footprint; with out omitted it
\* returns a new array object, none of the caller's.
C6_BufferReuse ==
    (Returned /\ ~footprint.is_sequence /\ arg_out # ImageId)
        => /\ heap[result] = ValueOf(op, x0, footprint)
           /\ arg_out = OutId => result = arg_out
           /\ arg_out = None => result \notin CallerArrays

C6_Witness ==
    /\ Returned /\ ~footprint.is_sequence /\ arg_out = OutId
    /\ op = "binary_closing"
    /\ result = OutId
    /\ heap[result] # x0
    /\ ~AllTrue(heap[result])

\* C7: binary_erosion of an all-true image is all-true at every position,
\* for every single footprint and every decomposed footprint with repeat
\* counts >= 1 (a neighbour outside the array counts as true in every pass).
C7_ErosionBorderTrue ==
    (/\ Returned /\ op = "binary_erosion" /\ WellFormed(footprint)
     /\ AllTrue(x0))
        => AllTrue(heap[result])

C7_Witness ==
    /\ Returned /\ op = "binary_erosion" /\ AllTrue(x0)
    /\ footprint.is_sequence /\ Len(footprint.pairs) = 2
    /\ footprint.pairs[1][2] = 2
    /\ \A i \in 1 .. 2 : Offsets(footprint.pairs[i][1]) = {-1, 0, 1}
    /\ AllTrue(heap[result])

\* C8: in a call of binary_opening or binary_closing with an out array of
\* the caller's, every reducer call of the first sub-step writes an array
\* allocated during the call, the caller's out is not changed while the
\* first sub-step runs, and image is never changed when out is not image.
C8_IntermediateIsFresh ==
    [][(op \in OpenClose /\ arg_out # None)
          => /\ phase' = 1 => /\ lastCall'.dst \notin CallerArrays
                              /\ heap'[arg_out] = heap[arg_out]
             /\ arg_out # ImageId => heap'[ImageId] = heap[ImageId]]_vars

C8_Witness ==
    /\ Returned /\ op = "binary_closing" /\ arg_out = OutId
    /\ footprint.is_sequence /\ Len(footprint.pairs) = 2
    /\ heap[OutId] # x0
    /\ heap[ImageId] = x0

\* C9: binary_opening or binary_closing called with out being image itself
\* returns the contents it computes from image and footprint when out is
\* omitted.
C9_OutIsImage ==
    (/\ Returned /\ op \in OpenClose /\ arg_out = ImageId
     /\ WellFormed(footprint))
        => /\ result = ImageId
           /\ heap[result] = ValueOf(op, x0, footprint)

C9_Witness ==
    /\ Returned /\ op = "binary_opening" /\ arg_out = ImageId
    /\ footprint.is_sequence /\ Len(footprint.pairs) = 2
    /\ WellFormed(footprint)
    /\ heap[ImageId] # x0

\* C10: with out not being image, what each operator returns is determined
\* by image and the footprint argument alone, whatever the output array held
\* at call entry (a caller's array with prior contents, or a newly allocated
\* uninitialised one).
C10_IndependentOfOutContents ==
    (Returned /\ arg_out # ImageId /\ WellFormed(footprint))
        => heap[result] = ValueOf(op, x0, footprint)

C10_Witness ==
    /\ Returned /\ arg_out = OutId /\ op = "binary_dilation"
    /\ footprint.is_sequence /\ Len(footprint.pairs) = 2
    /\ WellFormed(footprint)
    /\ heap[OutId] # x0
    /\ ~AllTrue(heap[OutId])
    /\ \E p \in DOMAIN x0 : heap[OutId][p]

===========================================================================
